---- MODULE Spec2Model ----
(***************************************************************************)
(* Session lifecycle and command orchestration of the browser automation   *)
(* backend: BrowserSessionManager (the registry), BrowserSession (queue,   *)
(* worker, captcha event) and BrowserSession._execute_command (the task    *)
(* loop), as written in src/backend/utils/browser_session.py, with the     *)
(* planner adapter of services/command_service.py and the dispatcher of    *)
(* services/browser_service.py.                                            *)
(*                                                                         *)
(* Scheduling is asyncio's: one coroutine runs at a time and gives up the  *)
(* event loop only at an await.  Every coroutine has a pc; a pc in         *)
(* YieldPcs is an await, any other pc is the middle of a run that no other *)
(* coroutine or request handler can interleave with.                       *)
(*                                                                         *)
(* Time is counted in ticks of half a second.  A time stamp t of the code  *)
(* is kept as its age time.time() - t; an age is exact up to QuietTicks    *)
(* and then only known to lie between QuietTicks and the limit it is       *)
(* compared with; limit + 1 stands for every age beyond the limit.  A      *)
(* timed await lasts its nominal duration or is late by StallTicks.        *)
(***************************************************************************)
EXTENDS Integers, Sequences, FiniteSets, TLC

\* ------------------------------------------------------------------ bounds
MaxSessions == 1
MaxCommands == 2
QuietTicks == 1
StallTicks == 3600

\* ------------------------------------------------------- program constants
max_iterations == 15
CaptchaTimeoutSeconds == 300
IdleTimeoutSeconds == 1800
CleanupPeriodSeconds == 300
TicksPerSecond == 2

CaptchaLimit == CaptchaTimeoutSeconds * TicksPerSecond
IdleLimit == IdleTimeoutSeconds * TicksPerSecond

SessionIds == 1..MaxSessions

VARIABLES
    sessions,   \* BrowserSessionManager.sessions: the ids in the table
    session,    \* the BrowserSession objects, by id
    frame,      \* the locals of each session's _execute_command activation
    planner,    \* the Planner stub and its call count for the current command
    cleanup     \* the cleanup_inactive_sessions task

vars == <<sessions, session, frame, planner, cleanup>>

Min(a, b) == IF a < b THEN a ELSE b

\* time.time() - t after d more ticks, for a stamp compared with limit
AgeAfter(age, d, limit) ==
    IF age + d > limit THEN limit + 1 ELSE Min(age + d, Min(QuietTicks, limit))

\* the durations of a timed await of nominal length d
Durations(d) == {d, d + StallTicks}

\* ------------------------------------------------------------------- data
Explanation(kind, max_note, waiting_note) ==
    [kind |-> kind, max_steps_note |-> max_note, waiting_note |-> waiting_note]

NoExplanation == Explanation("none", FALSE, FALSE)

\* the dict _execute_command returns (lines 484-496); status "none": no dict
CommandResult(status, results, explanation, done) ==
    [status |-> status, results |-> results, explanation |-> explanation,
     task_completed |-> done]

NoResult == CommandResult("none", <<>>, NoExplanation, FALSE)

\* BrowserCommand(...) as add_command builds it; the uuid is the number of
\* the enqueue, so ids grow in enqueue order as the timestamps do
NewCommand(id) ==
    [command_id |-> id, processed |-> FALSE, result |-> NoResult,
     task_completed |-> FALSE, task_progress |-> NoExplanation]

\* one entry of the Planner's "commands" list
Cmd(kind, target, done) ==
    [command_type |-> kind, target |-> target, task_completed |-> done,
     task_summary |-> "summary", message |-> "message"]

\* a parsed LLM response; raises stands for a failed call or unparsable JSON
Response(cmds, done) == [commands |-> cmds, task_completed |-> done, raises |-> FALSE]

Raises == [commands |-> <<>>, task_completed |-> FALSE, raises |-> TRUE]

R_navigate == Response(<<Cmd("navigate", "ok", FALSE)>>, FALSE)
R_click == Response(<<Cmd("click", "ok", FALSE)>>, FALSE)
R_click_missing == Response(<<Cmd("click", "missing", FALSE)>>, FALSE)
R_captcha == Response(<<Cmd("wait_for_captcha", "ok", FALSE)>>, FALSE)
R_captcha_click ==
    Response(<<Cmd("wait_for_captcha", "ok", FALSE), Cmd("click", "ok", FALSE)>>, FALSE)
R_complete == Response(<<Cmd("task_complete", "ok", FALSE)>>, FALSE)
R_empty == Response(<<>>, FALSE)

\* a Planner that never completes and meets the challenge in its n-th call
LateCaptcha(n) ==
    [i \in 1..(n + 1) |->
        IF i = 1 THEN R_navigate
        ELSE IF i = n THEN R_captcha_click ELSE R_click]

\* the stub Planners: the n-th call for a Command answers script[n], and the
\* last answer is repeated from then on
Scripts ==
    { <<R_navigate, R_click>>,
      <<R_navigate, R_complete>>,
      <<R_navigate, R_captcha, R_complete>>,
      <<R_navigate, R_captcha_click, R_complete>>,
      LateCaptcha(max_iterations - 1),
      <<R_navigate, R_click_missing>>,
      <<R_navigate, R_empty>>,
      <<R_navigate, Raises>>,
      <<R_complete>> }

\* batches of several Actions, and Actions that carry the completion flag
R_click_done == Response(<<Cmd("click", "ok", TRUE)>>, FALSE)
R_fill_missing_click_done ==
    Response(<<Cmd("fill", "missing", FALSE), Cmd("click", "ok", TRUE)>>, FALSE)
R_teleport_click ==
    Response(<<Cmd("teleport", "ok", FALSE), Cmd("click", "ok", FALSE)>>, FALSE)
R_click_navigate_click ==
    Response(<<Cmd("click", "ok", FALSE), Cmd("navigate", "ok", FALSE),
               Cmd("click", "ok", FALSE)>>, FALSE)
R_click_navigate_missing ==
    Response(<<Cmd("click", "ok", FALSE), Cmd("navigate", "missing", FALSE),
               Cmd("click", "ok", FALSE)>>, FALSE)
R_click_missing_click ==
    Response(<<Cmd("click", "missing", FALSE), Cmd("click", "ok", FALSE)>>, FALSE)
R_extract_missing_click ==
    Response(<<Cmd("extract_text", "missing", FALSE), Cmd("click", "ok", FALSE)>>,
             FALSE)
R_slow_dom_click ==
    Response(<<Cmd("wait_for_page_load", "slow_dom", FALSE),
               Cmd("click", "ok", FALSE)>>, FALSE)
R_slow_network_click ==
    Response(<<Cmd("wait_for_page_load", "slow_network", FALSE),
               Cmd("click", "ok", FALSE)>>, FALSE)
R_select_option_click ==
    Response(<<Cmd("select_option", "ok", FALSE), Cmd("click", "ok", FALSE)>>, FALSE)

\* a click that carries the completion flag and an empty task_summary
R_click_done_quiet ==
    Response(<<[Cmd("click", "ok", TRUE) EXCEPT !.task_summary = ""]>>, FALSE)

\* a Planner that completes in its n-th call, with an empty summary
LateQuietDone(n) ==
    [i \in 1..n |->
        IF i = 1 THEN R_navigate
        ELSE IF i = n THEN R_click_done_quiet ELSE R_click]

\* no commands, and task_completed set at the top level of the response
R_done_empty == Response(<<>>, TRUE)

\* a navigate with a click behind it that carries the completion flag
R_navigate_click_done ==
    Response(<<Cmd("navigate", "ok", FALSE), Cmd("click", "ok", TRUE)>>, FALSE)

\* the stub Planners that answer with such batches
BatchScripts ==
    { <<R_navigate, R_click_done>>,
      <<R_navigate, R_fill_missing_click_done>>,
      <<R_navigate, R_teleport_click, R_complete>>,
      <<R_navigate, R_click_navigate_click, R_complete>>,
      <<R_navigate, R_click_navigate_missing, R_complete>>,
      <<R_navigate, R_click_missing_click, R_complete>>,
      <<R_navigate, R_extract_missing_click, R_complete>>,
      <<R_navigate, R_select_option_click, R_complete>>,
      <<R_navigate, R_slow_dom_click, R_slow_network_click, R_complete>>,
      <<R_navigate, R_captcha_click, R_complete>>,
      LateQuietDone(max_iterations),
      <<R_navigate, R_done_empty>>,
      <<R_done_empty>>,
      <<R_empty>>,
      <<R_click, R_complete>>,
      <<R_navigate_click_done, R_complete>>,
      <<R_navigate, R_navigate_click_done, R_complete>> }

Answer(script, n) == script[Min(n, Len(script))]

\* ------------------------------------------------- the planner adapter
DefaultNavigate == Cmd("navigate", "ok", FALSE)
WaitForPageLoad == Cmd("wait_for_page_load", "ok", FALSE)

IsNavigate(cmd) == cmd.command_type = "navigate"

\* lines 222-236: on a blank page only one command, and a navigate
BlankPageCommands(commands) ==
    IF IsNavigate(commands[1]) THEN <<commands[1]>> ELSE <<DefaultNavigate>>

\* lines 238-260: a wait_for_page_load behind every navigate, and nothing
\* behind the first navigate that is not the last command
ProcessedCommands(commands) ==
    LET navs == {i \in 1..Len(commands) : IsNavigate(commands[i])}
    IN  IF navs = {} THEN commands
        ELSE LET i == CHOOSE k \in navs : \A j \in navs : k <= j
             IN  SubSeq(commands, 1, i) \o <<WaitForPageLoad>>

\* lines 264-301: the completion flag goes to the last processed command
MarkCompleted(processed, commands, top_level) ==
    LET flagged == {i \in 1..Len(commands) : commands[i].task_completed}
        done == flagged # {} \/ top_level
    IN  IF processed # <<>> /\ done
        THEN [processed EXCEPT ![Len(processed)].task_completed = TRUE]
        ELSE processed

\* get_browser_commands on a response that parsed; blank: no page structure
get_browser_commands(response, blank) ==
    IF response.commands = <<>> THEN <<>>
    ELSE LET commands == IF blank THEN BlankPageCommands(response.commands)
                         ELSE response.commands
         IN  MarkCompleted(ProcessedCommands(commands), commands,
                           response.task_completed)

\* ------------------------------------------------------- the dispatcher
KnownKinds ==
    {"navigate", "search", "click", "fill", "wait", "wait_for_captcha",
     "wait_for_page_load", "extract_text", "extract_table", "extract_links",
     "extract_elements", "extract_json", "press"}

Result(kind, ok, msg) ==
    [command |-> kind, success |-> ok, waiting_for_user |-> FALSE, message |-> msg]

\* faulty variant: the except of lines 220-228 is missing, the timeout of a
\* load state fails the Action like any other timeout
page_load_result_HardTimeout(cmd) ==
    IF cmd.target = "ok" THEN Result("wait_for_page_load", TRUE, "ok")
    ELSE Result("wait_for_page_load", FALSE, "error")

\* lines 200-228: both load states are reached, or one of them (target
\* "slow_dom", "slow_network") times out and the result carries a warning
page_load_result(cmd) ==
    IF cmd.target = "ok" THEN Result("wait_for_page_load", TRUE, "ok")
    ELSE Result("wait_for_page_load", TRUE, "load_timeout_warning")

\* faulty variant: an unknown kind falls through with the initial result
execute_SilentUnknown(cmd, browser) ==
    LET kind == cmd.command_type
    IN  IF kind \notin KnownKinds THEN Result(kind, FALSE, "")
        ELSE IF browser # "open" THEN Result(kind, FALSE, "error")
        ELSE IF kind = "wait_for_captcha"
             THEN [Result(kind, TRUE, "captcha") EXCEPT !.waiting_for_user = TRUE]
        ELSE IF kind = "wait" THEN Result(kind, TRUE, "ok")
        ELSE IF kind = "wait_for_page_load" THEN page_load_result(cmd)
        ELSE IF kind = "search" THEN Result(kind, FALSE, "")
        ELSE Result(kind, cmd.target = "ok", IF cmd.target = "ok" THEN "ok" ELSE "error")

\* BrowserAction.execute as _execute_command sees it (lines 402-413): every
\* exception of the dispatcher becomes a failure Result of the same kind
execute(cmd, browser) ==
    LET kind == cmd.command_type
    IN  IF kind \notin KnownKinds THEN Result(kind, FALSE, "unknown_command_type")
        ELSE IF browser # "open" THEN Result(kind, FALSE, "error")
        ELSE IF kind = "wait_for_captcha"
             THEN [Result(kind, TRUE, "captcha") EXCEPT !.waiting_for_user = TRUE]
        ELSE IF kind = "wait" THEN Result(kind, TRUE, "ok")
        ELSE IF kind = "wait_for_page_load" THEN page_load_result(cmd)
        ELSE IF kind = "search" THEN Result(kind, FALSE, "")
        ELSE Result(kind, cmd.target = "ok", IF cmd.target = "ok" THEN "ok" ELSE "error")

CriticalKinds == {"navigate", "click", "fill"}

\* the command types the system prompt offers to the Planner
PromptKinds ==
    {"navigate", "search", "click", "fill", "wait", "wait_for_selector",
     "wait_for_page_load", "wait_for_captcha", "extract_text", "extract_links",
     "extract_table", "extract_elements", "extract_json", "select_option",
     "check", "press"}

\* --------------------------------------------------- _generate_explanation
generate_explanation(results) ==
    LET ok == {i \in 1..Len(results) : results[i].success}
        bad == {i \in 1..Len(results) : ~results[i].success}
        waiting == \E i \in 1..Len(results) :
                       /\ results[i].command = "wait_for_captcha"
                       /\ results[i].waiting_for_user
    IN  IF results = <<>> THEN Explanation("no_actions", FALSE, FALSE)
        ELSE IF ok # {} /\ bad = {} THEN Explanation("completed", FALSE, waiting)
        ELSE IF ok # {} /\ bad # {} THEN Explanation("partially_completed", FALSE, waiting)
        ELSE Explanation("not_completed", FALSE, waiting)

\* ------------------------------------------------------------------ state
\* BrowserSession.__init__ (the object before create_session builds it)
NoSession ==
    [phase |-> "none", wait_for_captcha |-> FALSE, browser |-> "none",
     url |-> "about:blank", command_queue |-> <<>>, current_command |-> 0,
     is_processing |-> FALSE, is_active |-> FALSE, last_activity |-> 0,
     captcha_resolved |-> FALSE, pc |-> "none", stopping |-> "none",
     stop_session_raised |-> FALSE]

\* the locals of _execute_command at its entry (lines 236-243)
NewFrame ==
    [iterations |-> 0, task_completed |-> FALSE, final_explanation |-> "",
     is_waiting_for_captcha |-> FALSE, captcha_result |-> 0, start_time |-> 0,
     command_chain_results |-> <<>>, page_structure |-> "none",
     browser_commands |-> <<>>, iteration_results |-> <<>>, next |-> 1,
     raised |-> FALSE]

\* the awaits of a session's worker, and the states in which it does not run
YieldPcs ==
    {"none", "start", "sleep", "closing", "exit",
     "extract", "wait_for", "wait_sleep", "dispatch", "iter_sleep"}

CleanupYieldPcs == {"off", "created", "closing", "sleep", "dead"}

\* the event loop is free for the coroutine of session s (0: for a request)
LoopFreeFor(s) ==
    /\ \A t \in SessionIds \ {s} : session[t].pc \in YieldPcs
    /\ cleanup.pc \in CleanupYieldPcs

LoopFree == LoopFreeFor(0)

\* every time stamp grows d ticks older
Aged(sess, d) ==
    [t \in SessionIds |->
        [sess[t] EXCEPT !.last_activity = AgeAfter(@, d, IdleLimit)]]

\* captcha_result["start_time"] is read only while the loop waits on the gate
AgedFrames(fr, d) ==
    [t \in SessionIds |->
        IF fr[t].is_waiting_for_captcha
        THEN [fr[t] EXCEPT !.start_time = AgeAfter(@, d, CaptchaLimit)]
        ELSE fr[t]]

Init ==
    /\ sessions = {}
    /\ session = [s \in SessionIds |-> NoSession]
    /\ frame = [s \in SessionIds |-> NewFrame]
    /\ planner \in [script : Scripts, calls : {[s \in SessionIds |-> 0]}]
    /\ cleanup = [pc |-> "off", todo |-> {}, to_remove |-> {}, used |-> 0, cur |-> 0]

\* the same service driven by the Planners of BatchScripts
BatchInit ==
    /\ sessions = {}
    /\ session = [s \in SessionIds |-> NoSession]
    /\ frame = [s \in SessionIds |-> NewFrame]
    /\ planner \in [script : BatchScripts, calls : {[s \in SessionIds |-> 0]}]
    /\ cleanup = [pc |-> "off", todo |-> {}, to_remove |-> {}, used |-> 0, cur |-> 0]

\* --------------------------------------------------------- the registry
\* faulty variant: the session is put into the table before start() is awaited
create_session_RegistersFirst(s, wait_for_captcha) ==
    /\ LoopFree
    /\ session[s].phase = "none"
    /\ \A t \in SessionIds : t < s => session[t].phase # "none"
    /\ session' = [session EXCEPT ![s].phase = "starting",
                                  ![s].wait_for_captcha = wait_for_captcha]
    /\ sessions' = sessions \cup {s}
    /\ UNCHANGED <<frame, planner, cleanup>>

\* create_session up to the first await of BrowserSession.start
create_session(s, wait_for_captcha) ==
    /\ LoopFree
    /\ session[s].phase = "none"
    /\ \A t \in SessionIds : t < s => session[t].phase # "none"
    /\ session' = [session EXCEPT ![s].phase = "starting",
                                  ![s].wait_for_captcha = wait_for_captcha]
    /\ UNCHANGED <<sessions, frame, planner, cleanup>>

\* start() finishes: the browser is up, the worker task is created, and
\* create_session puts the session into the table
start_done(s) ==
    /\ LoopFree
    /\ session[s].phase = "starting"
    /\ session' = [session EXCEPT ![s].phase = "started",
                                  ![s].browser = "open",
                                  ![s].is_active = TRUE,
                                  ![s].last_activity = 0,
                                  ![s].pc = "start"]
    /\ sessions' = sessions \cup {s}
    /\ UNCHANGED <<frame, planner, cleanup>>

\* the browser launch raises: create_session raises and registers nothing
start_fails(s) ==
    /\ LoopFree
    /\ session[s].phase = "starting"
    /\ session' = [session EXCEPT ![s].phase = "failed"]
    /\ UNCHANGED <<sessions, frame, planner, cleanup>>

\* what BrowserSessionManager.add_command does for id s
add_command_outcome(s) ==
    IF s \notin sessions THEN "not_found"
    ELSE IF ~session[s].is_active THEN "not_active_error"
    ELSE "queued"

\* faulty variant: the new Command is inserted at the head of the queue
Enqueue_AtHead(queue, command) == <<command>> \o queue

\* line 189: the new Command goes to the end of the queue
Enqueue(queue, command) == Append(queue, command)

add_command(s) ==
    /\ LoopFree
    /\ add_command_outcome(s) = "queued"
    /\ Len(session[s].command_queue) < MaxCommands
    /\ session' = [session EXCEPT
                     ![s].command_queue =
                         Enqueue(@, NewCommand(Len(@) + 1)),
                     ![s].last_activity = 0]
    /\ UNCHANGED <<sessions, frame, planner, cleanup>>

\* faulty variant: the test of the processed flag (line 201) is missing
get_command_result_NoFlagTest(s, i) ==
    IF s \notin sessions THEN [status |-> "error", message |-> "session_not_found"]
    ELSE IF i \notin 1..Len(session[s].command_queue)
         THEN [status |-> "error", message |-> "command_not_found"]
    ELSE [status |-> "completed", result |-> session[s].command_queue[i].result]

\* BrowserSessionManager.get_command_result for command i of session s
get_command_result(s, i) ==
    IF s \notin sessions THEN [status |-> "error", message |-> "session_not_found"]
    ELSE IF i \notin 1..Len(session[s].command_queue)
         THEN [status |-> "error", message |-> "command_not_found"]
    ELSE IF session[s].command_queue[i].processed
         THEN [status |-> "completed", result |-> session[s].command_queue[i].result]
    ELSE [status |-> "pending", message |-> "waiting"]

\* BrowserSessionManager.get_session_status
get_session_status(s) ==
    IF s \notin sessions THEN [status |-> "error", message |-> "session_not_found"]
    ELSE [status |-> "record",
          is_active |-> session[s].is_active,
          pending_commands |->
              Cardinality({i \in 1..Len(session[s].command_queue) :
                              ~session[s].command_queue[i].processed}),
          current_url |-> IF session[s].browser # "none" /\ session[s].is_active
                          THEN session[s].url ELSE "none"]

\* the resolve operation of the Captcha Gate: sets the session's event
resolve_challenge(s) ==
    /\ LoopFree
    /\ s \in sessions
    /\ ~session[s].captcha_resolved
    /\ session' = [session EXCEPT ![s].captcha_resolved = TRUE]
    /\ UNCHANGED <<sessions, frame, planner, cleanup>>

\* BrowserSession.stop up to its await of browser.close (lines 163-170)
StopBegin(sess, s, by) ==
    [sess EXCEPT ![s].is_active = FALSE, ![s].browser = "closing",
                 ![s].stopping = by]

\* BrowserSession.stop after browser.close (lines 171-174)
StopEnd(sess, s) ==
    [sess EXCEPT ![s].browser = "none", ![s].stopping = "none"]

\* what BrowserSessionManager.stop_session does for id s
stop_session_outcome(s) ==
    IF s \notin sessions THEN "not_found"
    ELSE IF ~session[s].is_active THEN "stop_returned_false"
    ELSE "stopped"

stop_session(s) ==
    /\ LoopFree
    /\ stop_session_outcome(s) = "stopped"
    /\ session' = StopBegin(session, s, "api")
    /\ UNCHANGED <<sessions, frame, planner, cleanup>>

\* browser.close returned to stop_session: the handles are cleared and the
\* id is deleted from the table; `del` raises KeyError when the id is gone
stop_session_done(s) ==
    /\ LoopFree
    /\ session[s].stopping = "api"
    /\ session' = [StopEnd(session, s) EXCEPT
                      ![s].stop_session_raised = s \notin sessions]
    /\ sessions' = sessions \ {s}
    /\ UNCHANGED <<frame, planner, cleanup>>

\* ----------------------------------------------------------- the worker
\* faulty variant: the scan stops at the head of the queue
Unprocessed_HeadOnly(queue) == {i \in 1..Len(queue) : i = 1 /\ ~queue[i].processed}

\* lines 576-577: the Commands the scan of the queue can pick
Unprocessed(queue) == {i \in 1..Len(queue) : ~queue[i].processed}

\* faulty variant: the scan keeps the last unprocessed Command it meets
FirstUnprocessed_TakesLast(queue) ==
    CHOOSE i \in Unprocessed(queue) : \A j \in Unprocessed(queue) : i >= j

\* lines 577-578: the scan of the queue stops at the first unprocessed Command
FirstUnprocessed(queue) ==
    CHOOSE i \in Unprocessed(queue) : \A j \in Unprocessed(queue) : i <= j

\* the worker task runs d ticks after it went to sleep
worker_wake_after(s, d) ==
    /\ LoopFreeFor(s)
    /\ session' = [Aged(session, d) EXCEPT ![s].pc = "poll"]
    /\ frame' = AgedFrames(frame, d)
    /\ UNCHANGED <<sessions, planner, cleanup>>

\* the worker task runs for the first time, or its sleep of line 601 ends
worker_wake(s) ==
    /\ session[s].pc \in {"start", "sleep"}
    /\ \E d \in (IF session[s].pc = "sleep" THEN Durations(1) ELSE {0}) :
          worker_wake_after(s, d)

\* lines 574-583: the loop condition and the pick of the next Command
worker_poll(s) ==
    /\ LoopFreeFor(s)
    /\ session[s].pc = "poll"
    /\ LET me == session[s]
       IN  IF ~me.is_active
           THEN /\ session' = [session EXCEPT ![s].pc = "exit"]
                /\ UNCHANGED <<frame, planner>>
           ELSE IF ~me.is_processing /\ Unprocessed(me.command_queue) # {}
           THEN /\ session' = [session EXCEPT
                                 ![s].is_processing = TRUE,
                                 ![s].current_command =
                                     FirstUnprocessed(me.command_queue),
                                 ![s].pc = "loop_head"]
                /\ frame' = [frame EXCEPT ![s] = NewFrame]
                /\ planner' = [planner EXCEPT !.calls[s] = 0]
           ELSE /\ session' = [session EXCEPT ![s].pc = "idle_check"]
                /\ UNCHANGED <<frame, planner>>
    /\ UNCHANGED <<sessions, cleanup>>

\* lines 593-601: the worker's own idle timeout
idle_check(s) ==
    /\ LoopFreeFor(s)
    /\ session[s].pc = "idle_check"
    /\ session' =
          IF session[s].last_activity > IdleLimit
          THEN IF session[s].is_active
               THEN [StopBegin(session, s, "self") EXCEPT ![s].pc = "closing"]
               ELSE [session EXCEPT ![s].pc = "exit"]
          ELSE [session EXCEPT ![s].pc = "sleep"]
    /\ UNCHANGED <<sessions, frame, planner, cleanup>>

\* browser.close returned to the worker's stop(): the worker leaves its loop
self_stop_done(s) ==
    /\ LoopFreeFor(s)
    /\ session[s].pc = "closing"
    /\ session' = [StopEnd(session, s) EXCEPT ![s].pc = "exit"]
    /\ UNCHANGED <<sessions, frame, planner, cleanup>>

\* --------------------------------------------------------- the task loop
CaptchaResolved == Result("captcha_resolved", TRUE, "resolved")

\* line 247: every pass of the loop is counted, a pass spent waiting too
NextIteration(f) == f.iterations + 1

\* faulty variant: the bound is tested with <=
LoopContinues_OneMore(f) == ~f.task_completed /\ f.iterations <= max_iterations

\* line 246: the loop condition
LoopContinues(f) == ~f.task_completed /\ f.iterations < max_iterations

\* lines 246-274: the loop condition, the resume check, the page context
loop_head(s) ==
    /\ LoopFreeFor(s)
    /\ session[s].pc = "loop_head"
    /\ LET f == frame[s]
           me == session[s]
           resume == f.is_waiting_for_captcha /\ me.captcha_resolved
           inspect == me.browser # "none" /\ me.url # "about:blank"
       IN  IF LoopContinues(f)
           THEN /\ frame' = [frame EXCEPT
                       ![s].iterations = NextIteration(f),
                       ![s].is_waiting_for_captcha = IF resume THEN FALSE ELSE @,
                       ![s].start_time = IF resume THEN 0 ELSE @,
                       ![s].command_chain_results =
                           IF resume THEN Append(@, CaptchaResolved) ELSE @,
                       ![s].page_structure = "none"]
                /\ session' = [session EXCEPT
                       ![s].captcha_resolved = IF resume THEN FALSE ELSE @,
                       ![s].pc = IF inspect THEN "extract" ELSE "plan"]
           ELSE /\ session' = [session EXCEPT ![s].pc = "return"]
                /\ UNCHANGED frame
    /\ UNCHANGED <<sessions, planner, cleanup>>

\* line 273: extract_page_structure returns the snapshot; on a browser that
\* is closing or closed under it, it may raise instead (caught at line 491)
extract_done(s) ==
    /\ LoopFreeFor(s)
    /\ session[s].pc = "extract"
    /\ \E ok \in (IF session[s].browser = "open" THEN {TRUE} ELSE BOOLEAN) :
          IF ok
          THEN /\ frame' = [frame EXCEPT ![s].page_structure = "snapshot"]
               /\ session' = [session EXCEPT ![s].pc = "plan"]
          ELSE /\ frame' = [frame EXCEPT ![s].raised = TRUE]
               /\ session' = [session EXCEPT ![s].pc = "return"]
    /\ UNCHANGED <<sessions, planner, cleanup>>

\* faulty variant: the signal is looked for under another name
IsTaskComplete_OtherName(cmds) ==
    Len(cmds) = 1 /\ cmds[1].command_type = "task_completed"

\* lines 292-295: the single task_complete signal
IsTaskComplete(cmds) == Len(cmds) = 1 /\ cmds[1].command_type = "task_complete"

\* faulty variant: lines 306-315 are missing
Flagged_None(cmds) == {}

\* lines 306-307: the commands of the batch that carry the completion flag
Flagged(cmds) == {i \in 1..Len(cmds) : cmds[i].task_completed}

\* lines 276-315: the Planner call and the completion checks
ask_planner(s) ==
    LET f == frame[s]
        response == Answer(planner.script, planner.calls[s] + 1)
        cmds == get_browser_commands(response, f.page_structure = "none")
    IN  /\ planner' = [planner EXCEPT !.calls[s] = @ + 1]
        /\ IF response.raises
           THEN /\ frame' = [frame EXCEPT ![s].raised = TRUE]
                /\ session' = [session EXCEPT ![s].pc = "return"]
           ELSE IF cmds = <<>>
           THEN /\ frame' = [frame EXCEPT ![s].browser_commands = cmds]
                /\ session' = [session EXCEPT ![s].pc = "return"]
           ELSE IF IsTaskComplete(cmds)
           THEN /\ frame' = [frame EXCEPT
                       ![s].browser_commands = cmds,
                       ![s].task_completed = TRUE,
                       ![s].final_explanation = cmds[1].message]
                /\ session' = [session EXCEPT ![s].pc = "return"]
           ELSE /\ frame' = [frame EXCEPT
                       ![s].browser_commands = cmds,
                       ![s].iteration_results = <<>>,
                       ![s].next = 1,
                       ![s].task_completed = Flagged(cmds) # {},
                       ![s].final_explanation =
                           IF Flagged(cmds) = {} THEN @
                           ELSE cmds[CHOOSE i \in Flagged(cmds) :
                                       \A j \in Flagged(cmds) : i <= j].task_summary]
                /\ session' = [session EXCEPT ![s].pc = "batch"]

\* lines 316-333: an iteration spent on the armed gate
check_gate(s) ==
    /\ session' = [session EXCEPT
           ![s].pc = IF session[s].captcha_resolved THEN "loop_head" ELSE "wait_for"]
    /\ UNCHANGED <<frame, planner>>

\* faulty variant: the test of line 276 is missing, every iteration asks
plan_AlwaysAsks(s) ==
    /\ LoopFreeFor(s)
    /\ session[s].pc = "plan"
    /\ ask_planner(s)
    /\ UNCHANGED <<sessions, cleanup>>

\* line 276: new commands are asked for only when the gate is not awaited
plan(s) ==
    /\ LoopFreeFor(s)
    /\ session[s].pc = "plan"
    /\ IF frame[s].is_waiting_for_captcha THEN check_gate(s) ELSE ask_planner(s)
    /\ UNCHANGED <<sessions, cleanup>>

\* the result the gate holds while it waits (captcha_result, an entry of the
\* history), with its message changed
WithCaptchaResult(f, msg, ok, waiting) ==
    IF f.captcha_result = 0 THEN f
    ELSE [f EXCEPT !.command_chain_results[f.captcha_result] =
             [@ EXCEPT !.message = msg, !.success = ok,
                       !.waiting_for_user = waiting],
                   !.iteration_results[Len(f.iteration_results)] =
             [@ EXCEPT !.message = msg, !.success = ok,
                       !.waiting_for_user = waiting]]

\* lines 330-349: wait_for(event.wait(), 1.0) returns or times out
wait_for_done(s) ==
    /\ LoopFreeFor(s)
    /\ session[s].pc = "wait_for"
    /\ IF session[s].captcha_resolved
       THEN /\ session' = [session EXCEPT ![s].pc = "loop_head"]
            /\ UNCHANGED frame
       ELSE \E d \in Durations(TicksPerSecond) :
              /\ session' = [Aged(session, d) EXCEPT ![s].pc = "wait_sleep"]
              /\ frame' = [AgedFrames(frame, d) EXCEPT
                             ![s] = WithCaptchaResult(@, "still_waiting", TRUE, TRUE)]
    /\ UNCHANGED <<sessions, planner, cleanup>>

\* lines 349-350: the sleep of one second behind a timed-out wait
wait_sleep_done(s) ==
    /\ LoopFreeFor(s)
    /\ session[s].pc = "wait_sleep"
    /\ \E d \in Durations(TicksPerSecond) :
          /\ session' = [Aged(session, d) EXCEPT ![s].pc = "loop_head"]
          /\ frame' = AgedFrames(frame, d)
    /\ UNCHANGED <<sessions, planner, cleanup>>

\* faulty variant: the for loop walks the batch from its end
BatchItem_Reversed(cmds, k) == cmds[Len(cmds) + 1 - k]

\* line 358: the k-th command the for loop takes from the batch
BatchItem(cmds, k) == cmds[k]

CaptchaWaiting ==
    [Result("wait_for_captcha", TRUE, "captcha") EXCEPT !.waiting_for_user = TRUE]

\* faulty variant: the challenge that is not waited for is recorded as done
CaptchaDisabled_Success == Result("wait_for_captcha", TRUE, "waiting_disabled")

\* lines 391-399: the Result of a challenge met with the pause disabled
CaptchaDisabled == Result("wait_for_captcha", FALSE, "waiting_disabled")

\* faulty variant: line 371 is missing, the event keeps what it held
ArmClears_KeepsEvent(resolved) == resolved

\* line 371: the event is reset when a wait_for_captcha action is met
ArmClears(resolved) == FALSE

\* faulty variant: the special case of line 362 is missing
HandledByGate_Never(cmd) == FALSE

\* line 362: the action the loop keeps for itself
HandledByGate(cmd) == cmd.command_type = "wait_for_captcha"

\* lines 356-399: the next command of the batch; wait_for_captcha is handled
\* here, any other kind goes to the dispatcher
batch(s) ==
    /\ LoopFreeFor(s)
    /\ session[s].pc = "batch"
    /\ LET f == frame[s]
           me == session[s]
       IN  IF f.next > Len(f.browser_commands)
           THEN /\ session' = [session EXCEPT ![s].pc = "iter_sleep"]
                /\ UNCHANGED frame
           ELSE IF ~HandledByGate(BatchItem(f.browser_commands, f.next))
           THEN /\ session' = [session EXCEPT ![s].pc = "dispatch"]
                /\ UNCHANGED frame
           ELSE IF me.wait_for_captcha
           THEN /\ session' = [session EXCEPT
                       ![s].captcha_resolved = ArmClears(@),
                       ![s].pc = "iter_sleep"]
                /\ frame' = [frame EXCEPT
                       ![s].is_waiting_for_captcha = TRUE,
                       ![s].captcha_result = Len(f.command_chain_results) + 1,
                       ![s].start_time = 0,
                       ![s].iteration_results = Append(@, CaptchaWaiting),
                       ![s].command_chain_results = Append(@, CaptchaWaiting)]
           ELSE /\ session' = [session EXCEPT
                       ![s].captcha_resolved = ArmClears(@)]
                /\ frame' = [frame EXCEPT
                       ![s].iteration_results = Append(@, CaptchaDisabled),
                       ![s].command_chain_results = Append(@, CaptchaDisabled),
                       ![s].next = @ + 1]
    /\ UNCHANGED <<sessions, planner, cleanup>>

\* faulty variant: lines 429-434 are missing
EndsBatch_CriticalOnly(cmd, result) ==
    ~result.success /\ cmd.command_type \in CriticalKinds

\* lines 418-434: the two ways a batch ends early: a critical action that
\* failed, a navigate that succeeded
EndsBatch(cmd, result) ==
    \/ ~result.success /\ cmd.command_type \in CriticalKinds
    \/ cmd.command_type = "navigate" /\ result.success

\* faulty variant: the try of lines 402-413 is missing, a failure of the
\* dispatcher leaves _execute_command through line 491
Escapes_Failures(result) == ~result.success

\* lines 402-413: `except Exception` catches whatever the dispatcher raises,
\* so no result of execute leaves the for loop as an exception
Escapes(result) == FALSE

\* lines 400-434: the dispatcher's result and the two ways a batch ends early
dispatch_done(s) ==
    /\ LoopFreeFor(s)
    /\ session[s].pc = "dispatch"
    /\ LET f == frame[s]
           cmd == BatchItem(f.browser_commands, f.next)
           result == execute(cmd, session[s].browser)
           stop == EndsBatch(cmd, result)
       IN  IF Escapes(result)
           THEN /\ frame' = [frame EXCEPT ![s].raised = TRUE]
                /\ session' = [session EXCEPT ![s].pc = "return"]
           ELSE /\ frame' = [frame EXCEPT
                      ![s].iteration_results = Append(@, result),
                      ![s].command_chain_results = Append(@, result),
                      ![s].next = IF stop THEN @ ELSE @ + 1]
                /\ session' = [session EXCEPT
                      ![s].url = IF cmd.command_type = "navigate" /\ result.success
                                 THEN "site" ELSE @,
                      ![s].pc = IF stop THEN "iter_sleep" ELSE "batch"]
    /\ UNCHANGED <<sessions, planner, cleanup>>

\* lines 436-466: the sleep between iterations and the gate's timeout
iter_sleep_done(s) ==
    /\ LoopFreeFor(s)
    /\ session[s].pc = "iter_sleep"
    /\ \E d \in Durations(1) :
          LET aged == AgedFrames(frame, d)
              f == aged[s]
              timeout == f.is_waiting_for_captcha /\ f.start_time > CaptchaLimit
          IN  /\ frame' =
                    IF timeout
                    THEN [aged EXCEPT ![s] =
                            [WithCaptchaResult(f, "timeout", FALSE, FALSE)
                               EXCEPT !.is_waiting_for_captcha = FALSE]]
                    ELSE aged
              /\ session' = [Aged(session, d) EXCEPT
                    ![s].pc = IF timeout THEN "return" ELSE "loop_head"]
    /\ UNCHANGED <<sessions, planner, cleanup>>

\* faulty variant: line 475 tests iterations > max_iterations
final_explanation_StrictBound(f) ==
    IF f.task_completed /\ f.final_explanation # ""
    THEN Explanation("task_completed", FALSE, FALSE)
    ELSE [generate_explanation(f.command_chain_results) EXCEPT
             !.max_steps_note = f.iterations > max_iterations]

\* lines 468-478: the final explanation
final_explanation(f) ==
    IF f.task_completed /\ f.final_explanation # ""
    THEN Explanation("task_completed", FALSE, FALSE)
    ELSE [generate_explanation(f.command_chain_results) EXCEPT
             !.max_steps_note = f.iterations >= max_iterations]

\* lines 480-496: what _execute_command leaves in the Command and returns
Returned(command, f) ==
    IF f.raised
    THEN [command EXCEPT
            !.result = CommandResult("error", <<>>, NoExplanation, FALSE)]
    ELSE [command EXCEPT
            !.task_completed = f.task_completed,
            !.task_progress = final_explanation(f),
            !.result = CommandResult("success", f.command_chain_results,
                                     final_explanation(f), f.task_completed)]

\* faulty variant: line 589 is missing
MarkProcessed_StaysProcessing(me, i, command) ==
    [me EXCEPT !.command_queue[i] = [command EXCEPT !.processed = TRUE],
               !.current_command = 0,
               !.last_activity = 0]

\* faulty variant: line 587 is missing
MarkProcessed_NotMarked(me, i, command) ==
    [me EXCEPT !.command_queue[i] = command,
               !.current_command = 0,
               !.is_processing = FALSE,
               !.last_activity = 0]

\* faulty variant: line 590 is missing, the run does not count as activity
MarkProcessed_StaleActivity(me, i, command) ==
    [me EXCEPT !.command_queue[i] = [command EXCEPT !.processed = TRUE],
               !.current_command = 0,
               !.is_processing = FALSE]

\* lines 585-590: the worker stores the result and marks the Command processed
MarkProcessed(me, i, command) ==
    [me EXCEPT !.command_queue[i] = [command EXCEPT !.processed = TRUE],
               !.current_command = 0,
               !.is_processing = FALSE,
               !.last_activity = 0]

\* faulty variant: the except of lines 491-496 is missing, an exception of
\* the run leaves _execute_command and ends the worker task
return_Propagates(s) ==
    /\ LoopFreeFor(s)
    /\ session[s].pc = "return"
    /\ LET me == session[s]
           i == me.current_command
           done == MarkProcessed(me, i, Returned(me.command_queue[i], frame[s]))
       IN  session' = IF frame[s].raised
                      THEN [session EXCEPT ![s].pc = "exit"]
                      ELSE [session EXCEPT ![s] = [done EXCEPT !.pc = "idle_check"]]
    /\ frame' = [frame EXCEPT ![s] = NewFrame]
    /\ UNCHANGED <<sessions, planner, cleanup>>

\* _execute_command returns to the worker, which goes on to line 593
return(s) ==
    /\ LoopFreeFor(s)
    /\ session[s].pc = "return"
    /\ LET me == session[s]
           i == me.current_command
           done == MarkProcessed(me, i, Returned(me.command_queue[i], frame[s]))
       IN  session' = [session EXCEPT ![s] = [done EXCEPT !.pc = "idle_check"]]
    /\ frame' = [frame EXCEPT ![s] = NewFrame]
    /\ UNCHANGED <<sessions, planner, cleanup>>

\* ------------------------------------------------- the cleanup task
\* the host starts cleanup_inactive_sessions as a background task
start_cleanup ==
    /\ LoopFree
    /\ cleanup.pc = "off"
    /\ cleanup' = [cleanup EXCEPT !.pc = "created"]
    /\ UNCHANGED <<sessions, session, frame, planner>>

\* lines 681-685: a scan begins, at the start or after the sleep of line 699
cleanup_wake ==
    /\ LoopFree
    /\ cleanup.pc \in {"created", "sleep"}
    /\ \E d \in (IF cleanup.pc = "sleep"
                 THEN Durations(CleanupPeriodSeconds * TicksPerSecond) ELSE {0}) :
          /\ session' = Aged(session, d)
          /\ frame' = AgedFrames(frame, d)
    /\ cleanup' = [pc |-> "scan", todo |-> sessions, to_remove |-> {},
                   used |-> Cardinality(sessions), cur |-> 0]
    /\ UNCHANGED <<sessions, planner>>

\* lines 685-697: one step of the iteration over the table, or its end
cleanup_scan ==
    /\ \A t \in SessionIds : session[t].pc \in YieldPcs
    /\ cleanup.pc = "scan"
    /\ IF Cardinality(sessions) # cleanup.used
       THEN \* RuntimeError: dictionary changed size during iteration
            /\ cleanup' = [cleanup EXCEPT !.pc = "dead"]
            /\ UNCHANGED <<sessions, session>>
       ELSE IF cleanup.todo \cap sessions = {}
       THEN /\ sessions' = sessions \ cleanup.to_remove
            /\ cleanup' = [cleanup EXCEPT !.pc = "sleep", !.todo = {}]
            /\ UNCHANGED session
       ELSE LET s == CHOOSE x \in cleanup.todo \cap sessions :
                         \A y \in cleanup.todo \cap sessions : x <= y
                stale == \/ ~session[s].is_active
                         \/ session[s].last_activity > IdleLimit
            IN  IF stale /\ session[s].is_active
                THEN /\ session' = StopBegin(session, s, "cleanup")
                     /\ cleanup' = [cleanup EXCEPT !.pc = "closing", !.cur = s]
                     /\ UNCHANGED sessions
                ELSE /\ cleanup' = [cleanup EXCEPT
                           !.todo = @ \ {s},
                           !.to_remove = IF stale THEN @ \cup {s} ELSE @]
                     /\ UNCHANGED <<sessions, session>>
    /\ UNCHANGED <<frame, planner>>

\* browser.close returned to the scan's session.stop() (lines 690-691)
cleanup_close_done ==
    /\ LoopFree
    /\ cleanup.pc = "closing"
    /\ session' = StopEnd(session, cleanup.cur)
    /\ cleanup' = [cleanup EXCEPT !.pc = "scan",
                                  !.todo = @ \ {cleanup.cur},
                                  !.to_remove = @ \cup {cleanup.cur},
                                  !.cur = 0]
    /\ UNCHANGED <<sessions, frame, planner>>

\* ------------------------------------------------------ specifications
Worker(s) ==
    \/ worker_wake(s)
    \/ worker_poll(s)
    \/ idle_check(s)
    \/ self_stop_done(s)

TaskLoop(s) ==
    \/ loop_head(s)
    \/ extract_done(s)
    \/ plan(s)
    \/ wait_for_done(s)
    \/ wait_sleep_done(s)
    \/ batch(s)
    \/ dispatch_done(s)
    \/ iter_sleep_done(s)
    \/ return(s)

Requests(s) ==
    \/ \E w \in BOOLEAN : create_session(s, w)
    \/ start_done(s)
    \/ start_fails(s)
    \/ add_command(s)
    \/ resolve_challenge(s)
    \/ stop_session(s)
    \/ stop_session_done(s)

Cleanup ==
    \/ start_cleanup
    \/ cleanup_wake
    \/ cleanup_scan
    \/ cleanup_close_done

\* the service as main.py runs it: nothing starts cleanup_inactive_sessions
Next ==
    \/ \E s \in SessionIds : Requests(s)
    \/ \E s \in SessionIds : Worker(s)
    \/ \E s \in SessionIds : TaskLoop(s)

Spec == Init /\ [][Next]_vars

BatchSpec == BatchInit /\ [][Next]_vars

\* the service with cleanup_inactive_sessions started by its host
CleanupScripts ==
    { <<R_navigate, R_complete>>,
      <<R_navigate, R_captcha_click, R_complete>> }

CleanupInit ==
    /\ sessions = {}
    /\ session = [s \in SessionIds |-> NoSession]
    /\ frame = [s \in SessionIds |-> NewFrame]
    /\ planner \in [script : CleanupScripts, calls : {[s \in SessionIds |-> 0]}]
    /\ cleanup = [pc |-> "off", todo |-> {}, to_remove |-> {}, used |-> 0, cur |-> 0]

CleanupNext ==
    \/ Next
    \/ Cleanup

CleanupSpec == CleanupInit /\ [][CleanupNext]_vars

\* The event loop runs every coroutine that is ready, and time goes on: a
\* worker that keeps polling sees its idle window pass.
Fairness ==
    \A s \in SessionIds :
        /\ SF_vars(Worker(s))
        /\ SF_vars(TaskLoop(s))
        /\ SF_vars(session[s].pc = "sleep" /\ worker_wake_after(s, 1 + StallTicks))
        /\ WF_vars(start_done(s) \/ start_fails(s))
        /\ WF_vars(stop_session_done(s))

FairSpec == Spec /\ Fairness

\* The event loop runs a coroutine to its next await, and resumes a Task Loop
\* whose await is over.
RunFairness ==
    \A s \in SessionIds : SF_vars(Worker(s)) /\ SF_vars(TaskLoop(s))

RunSpec == Spec /\ RunFairness

\* ================================================================ claims
TaskLoopPcs ==
    {"loop_head", "extract", "plan", "wait_for", "wait_sleep", "batch",
     "dispatch", "iter_sleep", "return"}

\* the Commands of session s that have been started: picked by the worker
\* (current) or already carrying what _execute_command left in them
Started(s) ==
    {i \in 1..Len(session[s].command_queue) :
        \/ i = session[s].current_command
        \/ session[s].command_queue[i].processed
        \/ session[s].command_queue[i].result # NoResult}

\* C1: in every reachable state of a Session at most one Command is being
\* processed: the Commands that are started and not yet marked processed are
\* at most the one the worker holds, and the worker is inside the Task Loop
\* exactly while it holds one.
C1_OneCommandInProcessing ==
    \A s \in SessionIds :
        LET me == session[s]
            open == Started(s) \cap Unprocessed(me.command_queue)
        IN  /\ Cardinality(open) <= 1
            /\ (me.pc \in TaskLoopPcs) = me.is_processing
            /\ me.is_processing = (me.current_command # 0)
            /\ open = IF me.is_processing THEN {me.current_command} ELSE {}

\* a Command is in the Task Loop, past its first iteration, while a second
\* one waits in the queue and stop has been called
C1_Witness ==
    \E s \in SessionIds :
        /\ session[s].is_processing
        /\ Unprocessed(session[s].command_queue) = {1, 2}
        /\ frame[s].iterations > 1
        /\ ~session[s].is_active

\* C2: for Commands A and B of one Session with A enqueued before B, A is
\* marked processed before the processing of B starts.
C2_FifoOrder ==
    \A s \in SessionIds :
        LET q == session[s].command_queue
        IN  \A a, b \in 1..Len(q) :
                (q[a].command_id < q[b].command_id /\ b \in Started(s))
                    => q[a].processed

\* the second Command is in the Task Loop after the first, which ran all its
\* iterations, was marked processed
C2_Witness ==
    \E s \in SessionIds :
        LET q == session[s].command_queue
        IN  /\ Len(q) = 2
            /\ session[s].current_command = 2
            /\ q[1].processed
            /\ q[1].result.explanation.max_steps_note
            /\ frame[s].iterations > 0

\* C3: a Command is picked by the worker at most once (the worker picks only
\* a Command that is not processed and that no run has touched, and processed
\* never goes back to false), and the queue is append-only: it never shrinks
\* and the Commands in it keep their places.
C3_PickedOnceAppendOnly ==
    [][\A s \in SessionIds :
          LET q == session[s].command_queue
              q2 == session'[s].command_queue
              picked == session'[s].current_command
          IN  /\ Len(q2) >= Len(q)
              /\ \A i \in 1..Len(q) :
                    /\ q2[i].command_id = q[i].command_id
                    /\ q[i].processed => q2[i].processed
              /\ (picked # 0 /\ picked # session[s].current_command)
                    => /\ ~q[picked].processed
                       /\ q[picked].result = NoResult]_vars

\* both Commands of a queue have been picked and marked processed
C3_Witness ==
    \E s \in SessionIds :
        LET q == session[s].command_queue
        IN  /\ Len(q) = 2
            /\ q[1].processed /\ q[2].processed
            /\ q[1].command_id = 1 /\ q[2].command_id = 2

\* the Task Loop of session s is in its waiting state
Waiting(s) == frame[s].is_waiting_for_captcha /\ session[s].pc \in TaskLoopPcs \ {"return"}

\* the entry of the history that the gate holds (captcha_result)
CaptchaEntry(f) == f.command_chain_results[f.captcha_result]

\* C4: a gate wait that no resolve ends is ended only by the timeout: the
\* step that takes a running Session's Task Loop out of the waiting state,
\* with the event never set, is taken when more than 300 seconds have passed
\* since arming and leaves the challenge's Result a timeout failure.
C4_UnresolvedWaitEndsAtTimeout ==
    [][\A s \in SessionIds :
          ( /\ Waiting(s)
            /\ session[s].is_active /\ session'[s].is_active
            /\ ~session[s].captcha_resolved /\ ~session'[s].captcha_resolved
            /\ ~frame'[s].raised
            /\ \/ session'[s].pc = "return"
               \/ ~frame'[s].is_waiting_for_captcha )
          => /\ frame'[s].start_time > CaptchaLimit
             /\ ~frame'[s].is_waiting_for_captcha
             /\ ~CaptchaEntry(frame'[s]).success
             /\ CaptchaEntry(frame'[s]).message = "timeout"]_vars

\* C5: a resolve that arrives while the Task Loop waits is always taken up:
\* the run of a Session that was not stopped never ends in the waiting state
\* with the event set, and the pass through the top of the loop that finds
\* the event set leaves the waiting state, appends one 'captcha resolved'
\* Result and goes on to the Planner.
C5_ResolveResumesWaitingLoop ==
    [][\A s \in SessionIds :
          /\ ( /\ session[s].pc = "return"
               /\ frame[s].is_waiting_for_captcha
               /\ session[s].is_active
               /\ ~frame[s].raised )
             => ~session[s].captcha_resolved
          /\ ( /\ Waiting(s)
               /\ session[s].pc = "loop_head"
               /\ session[s].captcha_resolved
               /\ session'[s].pc # "return" )
             => /\ ~frame'[s].is_waiting_for_captcha
                /\ frame'[s].command_chain_results =
                       Append(frame[s].command_chain_results, CaptchaResolved)
                /\ session'[s].pc \in {"extract", "plan"}]_vars

\* C6: a resolve delivered while the gate is not armed does not satisfy a
\* later arm, and a wait is taken up only on a resolve: every step that arms
\* the gate leaves the event clear, whatever it held, and every step that
\* appends a 'captcha resolved' Result finds the event set and clears it.
C6_StaleResolveDoesNotSatisfyArm ==
    [][\A s \in SessionIds :
          /\ (~frame[s].is_waiting_for_captcha /\ frame'[s].is_waiting_for_captcha)
                => ~session'[s].captcha_resolved
          /\ ( /\ session[s].pc = "loop_head"
               /\ Len(frame'[s].command_chain_results)
                     > Len(frame[s].command_chain_results) )
                => /\ frame[s].is_waiting_for_captcha
                   /\ session[s].captcha_resolved
                   /\ ~session'[s].captcha_resolved]_vars

\* the second Command's run is about to arm the gate, pause-on-challenge
\* enabled, while the event is still set by a resolve from before the arm
C6_Witness ==
    \E s \in SessionIds :
        LET f == frame[s]
        IN  /\ session[s].current_command = 2
            /\ session[s].pc = "batch"
            /\ f.next <= Len(f.browser_commands)
            /\ f.browser_commands[f.next].command_type = "wait_for_captcha"
            /\ session[s].wait_for_captcha
            /\ ~f.is_waiting_for_captcha
            /\ session[s].captcha_resolved

\* the Session of id s has reached Stopped: stop() ran to its end
Stopped(s) ==
    /\ session[s].phase = "started"
    /\ ~session[s].is_active
    /\ session[s].browser = "none"

NotFound == [status |-> "error", message |-> "session_not_found"]

\* C7: a Session with no Commands whose last activity is older than the idle
\* window eventually is Stopped and gone from the Registry's table, so that
\* a status query and an enqueue for its id report not-found.
C7_IdleSessionIsRemoved ==
    \A s \in SessionIds :
        ( /\ s \in sessions
          /\ session[s].is_active
          /\ session[s].command_queue = <<>>
          /\ session[s].last_activity > IdleLimit )
        ~> ( /\ Stopped(s)
             /\ s \notin sessions
             /\ get_session_status(s) = NotFound
             /\ add_command_outcome(s) = "not_found" )

\* C8: for every Session that has reached Stopped, add_command,
\* get_command_result, get_session_status and stop_session against its id
\* all report not-found.
C8_StoppedSessionIsNotFound ==
    \A s \in SessionIds :
        Stopped(s) =>
            /\ add_command_outcome(s) = "not_found"
            /\ \A i \in 1..MaxCommands : get_command_result(s, i) = NotFound
            /\ get_session_status(s) = NotFound
            /\ stop_session_outcome(s) = "not_found"

\* a Planner response that is a non-empty batch and signals no completion
NoCompletion(response) ==
    /\ ~response.raises
    /\ response.commands # <<>>
    /\ ~response.task_completed
    /\ \A i \in 1..Len(response.commands) :
          /\ response.commands[i].command_type # "task_complete"
          /\ ~response.commands[i].task_completed

NeverCompletes(script) == \A n \in 1..Len(script) : NoCompletion(script[n])

\* the run ended at line 466, on the Captcha Gate's timeout
GateTimedOut(f) ==
    f.captcha_result # 0 /\ CaptchaEntry(f).message = "timeout"

\* the run of session s is over: what the worker is about to store
FinalResult(s) ==
    Returned(session[s].command_queue[session[s].current_command], frame[s]).result

C10_RunIsBounded ==
    /\ [](\A s \in SessionIds :
            /\ frame[s].iterations <= max_iterations
            /\ planner.calls[s] <= max_iterations
            /\ session[s].pc \in TaskLoopPcs
                  => planner.calls[s] <= frame[s].iterations
            /\ \A i \in Started(s) \ {session[s].current_command} :
                  /\ session[s].command_queue[i].processed
                  /\ session[s].command_queue[i].result.status
                        \in {"success", "error"})
    /\ \A s \in SessionIds :
          session[s].is_processing ~> ~session[s].is_processing

\* a run is over at the bound with fewer Planner calls than iterations: the
\* others were spent waiting on the gate
C10_Witness ==
    \E s \in SessionIds :
        /\ session[s].pc = "return"
        /\ frame[s].iterations = max_iterations
        /\ frame[s].is_waiting_for_captcha
        /\ planner.calls[s] > 1
        /\ planner.calls[s] < frame[s].iterations

\* C11: if the Planner's first answer for a Command is the single
\* task-complete signal, the run ends in iteration 1 with task_completed true
\* and the Planner's summary, and no Action is dispatched: the history and
\* the final Result's results are empty.
C11_FirstAnswerTaskComplete ==
    \A s \in SessionIds :
        LET f == frame[s]
        IN  ( /\ session[s].pc \in TaskLoopPcs
              /\ planner.calls[s] = 1
              /\ Len(f.browser_commands) = 1
              /\ f.browser_commands[1].command_type = "task_complete" )
            => /\ session[s].pc = "return"
               /\ f.iterations = 1
               /\ f.task_completed
               /\ f.final_explanation = f.browser_commands[1].message
               /\ f.command_chain_results = <<>>
               /\ FinalResult(s).status = "success"
               /\ FinalResult(s).task_completed
               /\ FinalResult(s).results = <<>>
               /\ FinalResult(s).explanation.kind = "task_completed"

\* the second Command of a Session, on a page that is loaded, is answered
\* with the task-complete signal at once
C11_Witness ==
    \E s \in SessionIds :
        /\ session[s].pc = "return"
        /\ session[s].current_command = 2
        /\ planner.calls[s] = 1
        /\ frame[s].iterations = 1
        /\ frame[s].task_completed
        /\ frame[s].browser_commands[1].command_type = "task_complete"

\* the batch the Planner returned last carries a completion flag
BatchSignalsCompletion(f) ==
    \E i \in 1..Len(f.browser_commands) : f.browser_commands[i].task_completed

\* C12 as stated: when the batch carries a completion flag, the loop stops
\* with task_completed true and no Action of that batch is dispatched.
C12_FlaggedBatchNotDispatched ==
    \A s \in SessionIds :
        (session[s].pc \in TaskLoopPcs /\ BatchSignalsCompletion(frame[s]))
        => /\ frame[s].task_completed
           /\ session[s].pc # "dispatch"
           /\ frame[s].iteration_results = <<>>

\* C12 amended: when the batch carries a completion flag, the loop records
\* task_completed true and the flagged Action's summary, dispatches Actions
\* of that batch in that iteration, and then stops without asking the
\* Planner again, the final Result reporting completion, with that summary
\* when it is not empty.
C12_FlaggedBatchDispatchedThenStop ==
    [][\A s \in SessionIds :
          LET f == frame[s]
          IN  (session[s].pc \in TaskLoopPcs /\ BatchSignalsCompletion(f))
              => /\ f.task_completed
                 /\ \E i \in 1..Len(f.browser_commands) :
                       /\ f.browser_commands[i].task_completed
                       /\ f.final_explanation = f.browser_commands[i].task_summary
                 /\ planner'.calls[s] = planner.calls[s]
                 /\ session[s].pc = "return"
                       => /\ f.iteration_results # <<>>
                          /\ FinalResult(s).status = "success"
                          /\ FinalResult(s).task_completed
                          /\ f.final_explanation # ""
                             => FinalResult(s).explanation.kind = "task_completed"]_vars

\* a run is over with task_completed true after the flagged click of its
\* last batch was dispatched
C12_Witness ==
    \E s \in SessionIds :
        LET f == frame[s]
        IN  /\ session[s].pc = "return"
            /\ BatchSignalsCompletion(f)
            /\ f.task_completed
            /\ Len(f.iteration_results) = 1
            /\ f.iteration_results[1].command = "click"
            /\ f.iteration_results[1].success

CriticalFailure(f) ==
    /\ f.iteration_results # <<>>
    /\ ~f.iteration_results[Len(f.iteration_results)].success
    /\ f.iteration_results[Len(f.iteration_results)].command \in CriticalKinds

\* C14: when a navigate, click or fill fails, the rest of the batch is not
\* dispatched and the failure is in the history; if the iteration bound is
\* not reached the loop goes on to another iteration, and that iteration
\* calls the Planner.
C14_CriticalFailureGoesBackToPlanner ==
    [][\A s \in SessionIds :
          LET f == frame[s]
              r == f.iteration_results
          IN  (CriticalFailure(f) /\ session[s].pc \in TaskLoopPcs)
              => /\ session[s].pc \notin {"batch", "dispatch"}
                 /\ \E k \in 1..Len(f.command_chain_results) :
                       f.command_chain_results[k] = r[Len(r)]
                 /\ ( /\ session[s].pc = "loop_head"
                      /\ session'[s].pc # "loop_head"
                      /\ f.iterations < max_iterations )
                    => session'[s].pc \in {"extract", "plan"}
                 /\ (session[s].pc = "plan" /\ session'[s].pc # "plan")
                    => planner'.calls[s] = planner.calls[s] + 1]_vars

\* C15: an Action of unknown kind produces exactly one failure Result that
\* names the unknown-kind error; the run does not end on it, and the loop
\* goes on with the rest of the batch.
C15_UnknownKindIsOneFailure ==
    [][\A s \in SessionIds :
          LET f == frame[s]
              cmd == f.browser_commands[f.next]
          IN  ( /\ session[s].pc = "dispatch"
                /\ session'[s].pc # "dispatch"
                /\ cmd.command_type \notin KnownKinds )
              => /\ frame'[s].command_chain_results =
                       Append(f.command_chain_results,
                              Result(cmd.command_type, FALSE, "unknown_command_type"))
                 /\ ~frame'[s].raised
                 /\ frame'[s].next = f.next + 1
                 /\ session'[s].pc = "batch"
                 /\ session'[s].is_processing]_vars

\* the Action behind the unknown one was dispatched in the same iteration
C15_Witness ==
    \E s \in SessionIds :
        LET r == frame[s].iteration_results
        IN  /\ Len(r) = 2
            /\ r[1] = Result("teleport", FALSE, "unknown_command_type")
            /\ r[2].command = "click" /\ r[2].success
            /\ session[s].pc = "iter_sleep"

\* C16: within one iteration the Actions dispatched are a prefix of the
\* Planner's batch, in the order returned: the k-th Result of the iteration
\* is that of the k-th Action of the batch, and while the batch is walked
\* the Actions before the current one each have exactly one Result.
C16_DispatchedIsPrefixOfBatch ==
    \A s \in SessionIds :
        LET f == frame[s]
            r == f.iteration_results
        IN  session[s].pc \in TaskLoopPcs \ {"return"}
            => /\ Len(r) <= Len(f.browser_commands)
               /\ \A k \in 1..Len(r) :
                     r[k].command = f.browser_commands[k].command_type
               /\ session[s].pc \in {"batch", "dispatch"}
                     => Len(r) = f.next - 1

\* a batch of two Actions of different kinds was dispatched to its end, the
\* first of them failing
C16_Witness ==
    \E s \in SessionIds :
        LET f == frame[s]
            r == f.iteration_results
        IN  /\ session[s].pc = "iter_sleep"
            /\ Len(f.browser_commands) = 2
            /\ Len(r) = 2
            /\ r[1].command = "extract_text" /\ ~r[1].success
            /\ r[2].command = "click"

\* C17: while a Command is being processed, the gate wait included, enqueue
\* on a Session that is not stopped succeeds; it puts the new Command behind
\* all the others and leaves the run alone, and a Command is started only
\* when none is being processed and all before it are marked processed.
C17_EnqueueWhileProcessing ==
    [][\A s \in SessionIds :
          LET q == session[s].command_queue
              q2 == session'[s].command_queue
              n == Len(q)
          IN  /\ ( /\ session[s].is_processing
                   /\ session[s].is_active
                   /\ s \in sessions )
                 => add_command_outcome(s) = "queued"
              /\ (session[s].is_processing /\ Len(q2) > n)
                 => /\ Len(q2) = n + 1
                    /\ SubSeq(q2, 1, n) = q
                    /\ ~q2[n + 1].processed
                    /\ q2[n + 1].result = NoResult
                    /\ \A i \in 1..n : q[i].command_id < q2[n + 1].command_id
                    /\ session'[s].current_command = session[s].current_command
                    /\ session'[s].is_processing
                    /\ frame'[s] = frame[s]
              /\ ( /\ session'[s].current_command # 0
                   /\ session'[s].current_command # session[s].current_command )
                 => /\ ~session[s].is_processing
                    /\ \A i \in 1..(session'[s].current_command - 1) :
                          q[i].processed]_vars

\* a second Command was enqueued while the run of the first sleeps in its
\* wait on the gate
C17_Witness ==
    \E s \in SessionIds :
        /\ Waiting(s)
        /\ session[s].pc = "wait_sleep"
        /\ session[s].current_command = 1
        /\ Len(session[s].command_queue) = 2
        /\ ~session[s].command_queue[2].processed
        /\ session[s].last_activity = 0

\* some Command of the queue of s is not marked processed
HasPending(s) ==
    \E i \in 1..Len(session[s].command_queue) :
        ~session[s].command_queue[i].processed

\* C18: under fair scheduling every Command enqueued on a Session that is
\* not stopped is eventually marked processed; a poll for a processed
\* Command answers completed with its Result, and with the Planner that
\* answers navigate and then task-complete that Result says success with
\* task_completed true.
C18_EveryCommandIsProcessed ==
    /\ [](\A s \in SessionIds :
            \A i \in 1..Len(session[s].command_queue) :
                LET c == session[s].command_queue[i]
                IN  (c.processed /\ s \in sessions)
                    => /\ get_command_result(s, i) =
                             [status |-> "completed", result |-> c.result]
                       /\ ( /\ planner.script = <<R_navigate, R_complete>>
                            /\ session[s].is_active )
                          => /\ c.result.status = "success"
                             /\ c.result.task_completed)
    /\ \A s \in SessionIds :
          HasPending(s) ~> (~session[s].is_active \/ ~HasPending(s))

\* both Commands of a Session that was never stopped are processed, the
\* second with the Result of the navigate, task-complete Planner
C18_Witness ==
    \E s \in sessions :
        /\ session[s].is_active
        /\ planner.script = <<R_navigate, R_complete>>
        /\ Len(session[s].command_queue) = 2
        /\ ~HasPending(s)
        /\ get_command_result(s, 2).status = "completed"
        /\ get_command_result(s, 2).result.task_completed

\* what the explanation of a final Result says about the outcome
Classification(explanation) ==
    CASE explanation.kind \in {"completed", "task_completed"} -> "full_success"
      [] explanation.kind = "partially_completed" -> "partial_success"
      [] explanation.kind \in {"not_completed", "no_actions"} -> "hard_failure"
      [] OTHER -> "none"

\* C19: the final Result of a processed Command says exactly one of full
\* success, partial success and hard failure, and says it in agreement with
\* the Action Results it carries: full success only if none of them failed,
\* partial success only if some succeeded and some failed, hard failure only
\* if none succeeded.
C19_ClassificationAgreesWithResults ==
    \A s \in SessionIds :
        \A i \in 1..Len(session[s].command_queue) :
            LET c == session[s].command_queue[i]
                r == c.result.results
                ok == {k \in 1..Len(r) : r[k].success}
                bad == {k \in 1..Len(r) : ~r[k].success}
                class == Classification(c.result.explanation)
            IN  (c.processed /\ c.result.status = "success")
                => /\ class \in {"full_success", "partial_success", "hard_failure"}
                   /\ class = "full_success" => bad = {}
                   /\ class = "partial_success" => (ok # {} /\ bad # {})
                   /\ class = "hard_failure" => ok = {}

\* C20: a Command marked processed never changes again, and a poll for it on
\* its Session answers completed with the Result stored; a Command not yet
\* marked processed carries no result, flag or summary, and a poll for it
\* answers pending.
C20_ProcessedCommandIsFrozen ==
    [][\A s \in SessionIds :
          \A i \in 1..Len(session[s].command_queue) :
              LET c == session[s].command_queue[i]
              IN  /\ c.processed
                     => /\ i <= Len(session'[s].command_queue)
                        /\ session'[s].command_queue[i] = c
                        /\ c.result.status \in {"success", "error"}
                        /\ s \in sessions
                           => get_command_result(s, i) =
                                 [status |-> "completed", result |-> c.result]
                  /\ ~c.processed
                     => /\ c.result = NoResult
                        /\ ~c.task_completed
                        /\ c.task_progress = NoExplanation
                        /\ s \in sessions
                           => get_command_result(s, i).status = "pending"]_vars

\* the first Command is processed and polled as completed while the run of
\* the second, about to return its Result, is still polled as pending
C20_Witness ==
    \E s \in sessions :
        /\ Len(session[s].command_queue) = 2
        /\ session[s].command_queue[1].processed
        /\ session[s].current_command = 2
        /\ session[s].pc = "return"
        /\ frame[s].task_completed
        /\ get_command_result(s, 1).status = "completed"
        /\ get_command_result(s, 2).status = "pending"

\* C21: once stop was called on a Session that is processing a Command, the
\* Task Loop makes no further Planner call and starts no further Action for
\* that Command (an Action in flight at the stop may finish).
C21_StopCancelsTaskLoop ==
    [][\A s \in SessionIds :
          ( /\ session[s].is_processing
            /\ session[s].phase = "started"
            /\ ~session[s].is_active )
          => /\ planner'.calls[s] <= planner.calls[s]
             /\ session[s].pc # "dispatch" => session'[s].pc # "dispatch"]_vars

\* C22: while an Action of a Session is in flight in the Dispatcher, no step
\* closes the browser or clears the page handle of that Session.
C22_HandleKeptWhileActionInFlight ==
    [][\A s \in SessionIds :
          (session[s].pc = "dispatch" /\ session[s].browser = "open")
          => session'[s].browser = "open"]_vars

\* C23: while one Command is processed its history only grows at the end:
\* every step of the run leaves the Results already in the history as they
\* are, the Result of a challenge included.
C23_HistoryIsAppendOnly ==
    [][\A s \in SessionIds :
          LET h == frame[s].command_chain_results
              h2 == frame'[s].command_chain_results
          IN  (session[s].pc \in TaskLoopPcs /\ session'[s].pc \in TaskLoopPcs)
              => /\ Len(h2) >= Len(h)
                 /\ SubSeq(h2, 1, Len(h)) = h]_vars

\* some Result of a processed Command is the failure of a dispatched Action
HasFailedAction(command) ==
    \E k \in 1..Len(command.result.results) :
        /\ ~command.result.results[k].success
        /\ command.result.results[k].command # "wait_for_captcha"

\* C24: the end of a dispatched Action appends exactly one Result, of that
\* Action's kind, to the history; when it is a failure the run still goes on
\* (no exception leaves the loop, the Session stays as active as it was, the
\* queue is untouched), and the worker of an active Session is alive whatever
\* failures its processed Commands recorded.
C24_ActionFailureIsOneResult ==
    [][\A s \in SessionIds :
          LET f == frame[s]
              h == f.command_chain_results
              h2 == frame'[s].command_chain_results
          IN  /\ (session[s].pc = "dispatch" /\ session'[s].pc # "dispatch")
                 => /\ Len(h2) = Len(h) + 1
                    /\ SubSeq(h2, 1, Len(h)) = h
                    /\ h2[Len(h2)].command = f.browser_commands[f.next].command_type
                    /\ ~frame'[s].raised
                    /\ session'[s].pc \in {"batch", "iter_sleep"}
                    /\ session'[s].is_active = session[s].is_active
                    /\ session'[s].is_processing
                    /\ session'[s].command_queue = session[s].command_queue
              /\ (session[s].is_active /\ session[s].phase = "started")
                 => session[s].pc \notin {"exit", "closing", "none"}]_vars

\* a Command whose run recorded the failure of a click is processed, and so
\* is the Command enqueued behind it, on a Session that is still active
C24_Witness ==
    \E s \in sessions :
        /\ session[s].is_active
        /\ Len(session[s].command_queue) = 2
        /\ session[s].command_queue[1].processed
        /\ HasFailedAction(session[s].command_queue[1])
        /\ session[s].command_queue[2].processed

\* C25: the Action in flight in the Dispatcher is never a wait_for_captcha,
\* and no Result of that kind in the history is one the Dispatcher builds:
\* it is the loop's own, waiting or disabled or timed out.
C25_ChallengeNeverDispatched ==
    \A s \in SessionIds :
        LET f == frame[s]
        IN  /\ session[s].pc = "dispatch"
               => f.browser_commands[f.next].command_type # "wait_for_captcha"
            /\ \A k \in 1..Len(f.command_chain_results) :
                  LET r == f.command_chain_results[k]
                  IN  r.command = "wait_for_captcha"
                      => \/ ~session[s].wait_for_captcha /\ r = CaptchaDisabled
                         \/ session[s].wait_for_captcha /\ k = f.captcha_result

\* with the pause disabled the loop answered the challenge itself and the
\* click behind it is now in the Dispatcher
C25_Witness ==
    \E s \in SessionIds :
        /\ ~session[s].wait_for_captcha
        /\ session[s].pc = "dispatch"
        /\ frame[s].iteration_results = <<CaptchaDisabled>>
        /\ frame[s].browser_commands[frame[s].next].command_type = "click"

\* C26: on a Session that was not stopped and whose gate received no signal
\* that is still pending, no processed Command carries, among its final
\* Results, the Result of a challenge that was not resolved (no resolution
\* is recorded behind it) and is still marked successful and waiting for the
\* user.
C26_UnresolvedChallengeIsFailure ==
    \A s \in SessionIds :
        \A i \in 1..Len(session[s].command_queue) :
            LET c == session[s].command_queue[i]
                n == Len(c.result.results)
            IN  ( /\ c.processed
                  /\ session[s].is_active
                  /\ ~session[s].captcha_resolved )
                => \A k \in 1..n :
                      LET r == c.result.results[k]
                      IN  ~( /\ r.command = "wait_for_captcha"
                             /\ r.success
                             /\ r.waiting_for_user
                             /\ \A j \in (k + 1)..n :
                                   c.result.results[j] # CaptchaResolved )

\* C27: whatever the interleaving of create_session, stop_session, the idle
\* self-stop and the cleanup scan, the scan does not die of a table that
\* changed under it and no stop_session raises on an id already deleted.
C27_TableMutationsSerialized ==
    /\ cleanup.pc # "dead"
    /\ \A s \in SessionIds : ~session[s].stop_session_raised

\* C28: a Session that is not started yet, or whose start failed, is not in
\* the table, is not active, has no worker and no Command, and an enqueue
\* for its id does not go through; a failed start stays unregistered.
C28_NoCommandBeforeActive ==
    \A s \in SessionIds :
        /\ session[s].phase \in {"none", "starting", "failed"}
           => /\ s \notin sessions
              /\ ~session[s].is_active
              /\ add_command_outcome(s) # "queued"
              /\ session[s].command_queue = <<>>
              /\ session[s].pc = "none"
        /\ session[s].command_queue # <<>> => session[s].phase = "started"

\* the start of a Session failed
C28_Witness ==
    \E s \in SessionIds :
        /\ session[s].phase = "failed"
        /\ s \notin sessions
        /\ add_command_outcome(s) = "not_found"

\* C29: no Action of a kind the Planner is offered is rejected by the
\* Dispatcher as unknown.
C29_OfferedKindsAreAccepted ==
    \A s \in SessionIds :
        \A k \in 1..Len(frame[s].command_chain_results) :
            LET r == frame[s].command_chain_results[k]
            IN  r.command \in PromptKinds => r.message # "unknown_command_type"

\* C30: on an open page a wait_for_page_load Action ends with a successful
\* Result, whether the load states were reached or one of them timed out; a
\* timeout only leaves a warning, the batch goes on with its next Action and
\* the run does not end on it.
C30_PageLoadTimeoutIsSoft ==
    [][\A s \in SessionIds :
          LET f == frame[s]
              cmd == f.browser_commands[f.next]
              h2 == frame'[s].command_chain_results
          IN  ( /\ session[s].pc = "dispatch"
                /\ session'[s].pc # "dispatch"
                /\ session[s].browser = "open"
                /\ cmd.command_type = "wait_for_page_load" )
              => /\ h2[Len(h2)].command = "wait_for_page_load"
                 /\ h2[Len(h2)].success
                 /\ h2[Len(h2)].message =
                       (IF cmd.target = "ok" THEN "ok" ELSE "load_timeout_warning")
                 /\ frame'[s].next = f.next + 1
                 /\ session'[s].pc = "batch"
                 /\ ~frame'[s].raised]_vars

\* both kinds of timeout were met by the run, and the click behind the
\* second wait was dispatched and succeeded
C30_Witness ==
    \E s \in SessionIds :
        LET r == frame[s].iteration_results
            h == frame[s].command_chain_results
        IN  /\ planner.script =
                  <<R_navigate, R_slow_dom_click, R_slow_network_click, R_complete>>
            /\ planner.calls[s] = 3
            /\ Len(r) = 2
            /\ r[1] = Result("wait_for_page_load", TRUE, "load_timeout_warning")
            /\ r[2].command = "click" /\ r[2].success
            /\ \A k \in 1..Len(h) : h[k].success

\* C31: on a Session that was not stopped, the final report of a run that
\* did not raise carries the maximum-steps note exactly when the loop used
\* all its iterations without completion: never with task_completed true,
\* never before the last iteration.
C31_MaxStepsNoteOnlyWhenExhausted ==
    \A s \in SessionIds :
        (session[s].pc = "return" /\ ~frame[s].raised /\ session[s].is_active)
        => ( FinalResult(s).explanation.max_steps_note
             <=> ( /\ frame[s].iterations = max_iterations
                   /\ ~FinalResult(s).task_completed ) )

\* C32: after a navigate that succeeded, the wait_for_page_load the adapter
\* put behind it is dispatched in the same iteration, before the loop goes
\* back to the Planner: when the batch is over, every successful navigate
\* Result of the iteration is followed by a wait_for_page_load Result.
C32_PageLoadAwaitedAfterNavigate ==
    \A s \in SessionIds :
        LET r == frame[s].iteration_results
        IN  session[s].pc = "iter_sleep"
            => \A i \in 1..Len(r) :
                  (r[i].command = "navigate" /\ r[i].success)
                  => /\ i < Len(r)
                     /\ r[i + 1].command = "wait_for_page_load"

\* C33: the Planner's answer sets task_completed at its top level and holds
\* no commands: get_browser_commands returns the single task_complete
\* marker and the run that ends on this answer reports task_completed true.
C33_TopLevelCompletionWithoutCommands ==
    \A s \in SessionIds :
        ( /\ session[s].pc = "return"
          /\ ~frame[s].raised
          /\ planner.calls[s] > 0
          /\ LET answer == Answer(planner.script, planner.calls[s])
             IN  /\ ~answer.raises
                 /\ answer.commands = <<>>
                 /\ answer.task_completed )
        => /\ IsTaskComplete(frame[s].browser_commands)
           /\ FinalResult(s).task_completed

\* C34: a Planner call made on a blank page (no page structure) that does
\* not raise always hands the loop a batch that begins with a navigate and
\* keeps nothing else of the Planner's answer, also when that answer held
\* no commands at all.
C34_BlankPageBatchStartsWithNavigate ==
    [][\A s \in SessionIds :
          LET answer == Answer(planner.script, planner.calls[s] + 1)
              cmds == frame'[s].browser_commands
          IN  ( /\ session[s].pc = "plan"
                /\ planner'.calls[s] = planner.calls[s] + 1
                /\ frame[s].page_structure = "none"
                /\ ~answer.raises )
              => /\ cmds # <<>>
                 /\ IsNavigate(cmds[1])
                 /\ \A i \in 2..Len(cmds) :
                       cmds[i].command_type = "wait_for_page_load"]_vars

\* interaction_service.py lines 34-66: what one poll of
\* execute_browser_interaction makes of get_command_result for the Command i
\* it queued on the Session s it created; stops: stop_session is called
execute_browser_interaction(s, i) ==
    LET result == get_command_result(s, i)
    IN  IF result.status # "completed"
        THEN [status |-> "pending", stops |-> FALSE]
        ELSE LET results == result.result.results
             IN  IF \E k \in 1..Len(results) : results[k].waiting_for_user
                 THEN [status |-> "waiting_for_captcha", stops |-> FALSE]
                 ELSE [status |-> IF result.result.status = "error"
                                  THEN "error" ELSE "success",
                       stops |-> ~session[s].wait_for_captcha]

\* C35: when the Command of a one-shot interaction has completed and none
\* of its Results awaits the user, execute_browser_interaction stops the
\* Session it created.
C35_InteractionStopsFinishedSession ==
    \A s \in sessions :
        LET result == get_command_result(s, 1)
        IN  ( /\ session[s].is_active
              /\ result.status = "completed"
              /\ \A k \in 1..Len(result.result.results) :
                    ~result.result.results[k].waiting_for_user )
            => execute_browser_interaction(s, 1).stops

\* C36: a run that reports task_completed through a completion flag (not
\* through the single task_complete signal) has dispatched an Action that
\* carried the flag in the Planner's last answer: the Result at that
\* Action's position in the last iteration is the Result of that Action.
C36_CompletionFlagOnlyOfDispatchedAction ==
    \A s \in SessionIds :
        LET f == frame[s]
            r == f.iteration_results
            answer == Answer(planner.script, planner.calls[s])
        IN  ( /\ session[s].pc = "return"
              /\ ~f.raised
              /\ planner.calls[s] > 0
              /\ f.task_completed
              /\ ~IsTaskComplete(f.browser_commands) )
            => \E i \in 1..Len(answer.commands) :
                  /\ answer.commands[i].task_completed
                  /\ i <= Len(r)
                  /\ r[i].command = answer.commands[i].command_type

\* C37: no step taken by a Task Loop that waits on the Captcha Gate calls
\* the Planner or goes on to the batch and the dispatcher, and at every
\* Planner call each challenge the gate was armed for is followed in the
\* history by the 'captcha resolved' Result of the iteration that found the
\* event set.
C37_NoPlannerNoDispatchWhileWaiting ==
    [][\A s \in SessionIds :
          LET h == frame[s].command_chain_results
          IN  /\ Waiting(s)
                 => /\ planner'.calls[s] = planner.calls[s]
                    /\ session'[s].pc \notin {"batch", "dispatch"}
                    /\ frame'[s].browser_commands = frame[s].browser_commands
              /\ ( /\ session[s].pc = "plan"
                   /\ planner'.calls[s] = planner.calls[s] + 1
                   /\ session[s].wait_for_captcha )
                 => \A k \in 1..Len(h) :
                       h[k].command = "wait_for_captcha"
                       => /\ k < Len(h)
                          /\ h[k + 1] = CaptchaResolved]_vars

\* the gate was armed and resolved: the Task Loop is about to make its first
\* Planner call since then, the 'captcha resolved' Result last in the history
C37_Witness ==
    \E s \in SessionIds :
        LET h == frame[s].command_chain_results
        IN  /\ session[s].pc = "plan"
            /\ ~frame[s].is_waiting_for_captcha
            /\ Len(h) >= 2
            /\ h[Len(h)] = CaptchaResolved
            /\ h[Len(h) - 1].command = "wait_for_captcha"
            /\ h[Len(h) - 1].waiting_for_user

\* C38: the step by which the worker stops its own Session on the idle
\* timeout (lines 593-598) is taken only when every Command of the queue is
\* processed and none is in progress.
C38_SelfStopOnlyWithNothingPending ==
    [][\A s \in SessionIds :
          ( /\ session[s].pc = "idle_check"
            /\ session[s].stopping = "none"
            /\ session'[s].stopping = "self" )
          => /\ \A i \in 1..Len(session[s].command_queue) :
                   session[s].command_queue[i].processed
             /\ ~session[s].is_processing
             /\ session[s].current_command = 0]_vars

\* the worker is stopping its Session on the idle timeout, the Commands it
\* was given all processed
C38_Witness ==
    \E s \in SessionIds :
        /\ session[s].pc = "closing"
        /\ session[s].stopping = "self"
        /\ Len(session[s].command_queue) = MaxCommands
        /\ \A i \in 1..Len(session[s].command_queue) :
              session[s].command_queue[i].processed

\* C39: when the Planner call of a run raises, the worker's next step marks
\* the Command processed with an error-status result, clears the processing
\* flag, leaves is_active as it is and goes on to its idle check with the
\* activity time just reset; and a worker that polls an active Session
\* holding such a Command and an unprocessed one picks the first
\* unprocessed one.
C39_PlannerErrorEndsOnlyTheCommand ==
    [][\A s \in SessionIds :
          LET me == session[s]
              i == me.current_command
              q == me.command_queue
          IN  /\ ( /\ me.pc = "return"
                   /\ session'[s].pc # "return"
                   /\ frame[s].raised
                   /\ planner.calls[s] > 0
                   /\ Answer(planner.script, planner.calls[s]).raises )
                 => /\ session'[s].command_queue[i].processed
                    /\ session'[s].command_queue[i].result.status = "error"
                    /\ ~session'[s].is_processing
                    /\ session'[s].current_command = 0
                    /\ session'[s].is_active = me.is_active
                    /\ session'[s].last_activity = 0
                    /\ session'[s].pc = "idle_check"
              /\ ( /\ me.pc = "poll"
                   /\ session'[s].pc # "poll"
                   /\ me.is_active
                   /\ \E k \in 1..Len(q) :
                         q[k].processed /\ q[k].result.status = "error"
                   /\ Unprocessed(q) # {} )
                 => /\ session'[s].pc = "loop_head"
                    /\ session'[s].is_processing
                    /\ session'[s].current_command \in Unprocessed(q)
                    /\ \A k \in Unprocessed(q) :
                          session'[s].current_command <= k]_vars

\* the first Command ended on a Planner call that raised; the Session is
\* still active and its worker has picked the second Command
C39_Witness ==
    \E s \in SessionIds :
        LET q == session[s].command_queue
        IN  /\ Len(q) = 2
            /\ q[1].processed
            /\ q[1].result.status = "error"
            /\ Answer(planner.script, 2).raises
            /\ session[s].is_active
            /\ session[s].is_processing
            /\ session[s].current_command = 2
            /\ session[s].pc = "loop_head"

\* C40: on a Session created with the pause disabled the Task Loop is never
\* in its waiting state, and the step that meets a wait_for_captcha Action
\* appends exactly one Result, a failure that does not await the user,
\* leaves the event cleared whatever it held, and stays in the batch at the
\* next Action.
C40_DisabledPauseNeverSuspends ==
    [][\A s \in SessionIds :
          LET f == frame[s]
              h == f.command_chain_results
              h2 == frame'[s].command_chain_results
          IN  ~session[s].wait_for_captcha
              => /\ ~f.is_waiting_for_captcha
                 /\ session[s].pc \notin {"wait_for", "wait_sleep"}
                 /\ ( /\ session[s].pc = "batch"
                      /\ f.next <= Len(f.browser_commands)
                      /\ BatchItem(f.browser_commands, f.next).command_type
                             = "wait_for_captcha" )
                    => /\ Len(h2) = Len(h) + 1
                       /\ SubSeq(h2, 1, Len(h)) = h
                       /\ h2[Len(h2)].command = "wait_for_captcha"
                       /\ ~h2[Len(h2)].success
                       /\ ~h2[Len(h2)].waiting_for_user
                       /\ frame'[s].iteration_results =
                              Append(f.iteration_results, h2[Len(h2)])
                       /\ ~frame'[s].is_waiting_for_captcha
                       /\ ~session'[s].captcha_resolved
                       /\ session'[s].pc = "batch"
                       /\ frame'[s].next = f.next + 1]_vars

\* with the pause disabled, the challenge was recorded as a failure and the
\* click behind it was dispatched in the same iteration; nothing is awaited
C40_Witness ==
    \E s \in SessionIds :
        LET r == frame[s].iteration_results
        IN  /\ ~session[s].wait_for_captcha
            /\ session[s].pc \in TaskLoopPcs
            /\ Len(r) = 2
            /\ r[1].command = "wait_for_captcha" /\ ~r[1].success
            /\ r[2].command = "click" /\ r[2].success
            /\ ~frame[s].is_waiting_for_captcha
            /\ ~session[s].captcha_resolved

====
